---- MODULE Spec2Model ----
(***************************************************************************)
(* State-machine model of demo.py, the single-file TurboInfra Agent demo:  *)
(* the script entry (arity check), then main's six stages parser,          *)
(* profiler, planner, kernelgen, runner and scorer, with the working       *)
(* directory, standard output and the subprocess boundary as environment.  *)
(*                                                                         *)
(* Numbers: Python floats are kept as fixed-point integers.  Latencies are *)
(* in hundredths of a millisecond (1.0 + i*0.1 ms = 100 + 10*i), GFLOPS in *)
(* tenths (123.4 = 1234), the utilisation in units of 10^-5.               *)
(***************************************************************************)
EXTENDS Integers, Sequences, FiniteSets, TLC

VARIABLES pc, argc, file, ops, hardware, trace, hot_ops, plan, fs_kernel,
          subprocess_calls, metrics, final_score, stdout, exit_status, raised

vars == <<pc, argc, file, ops, hardware, trace, hot_ops, plan, fs_kernel,
          subprocess_calls, metrics, final_score, stdout, exit_status, raised>>

(* ------------------------------ bounds --------------------------------- *)
MaxOps  == 4      \* longest ops list in a workload file
MaxArgc == 3      \* largest len(sys.argv): script name plus up to 2 arguments

OpNames   == {"matmul", "relu"}
Hardwares == {"A100", "H100"}

(* --------------------------- program constants ------------------------- *)
HotCount      == 3       \* the [:3] slice of the sorted trace
BaseLatency   == 100     \* 1.0 ms, in hundredths
StepLatency   == 10      \* 0.1 ms per position, in hundredths
MockLatency   == 42      \* 0.42 ms, in hundredths
MockGflops    == 1234    \* 123.4 GFLOPS, in tenths
PeakGflops    == 312     \* pretend peak, in whole GFLOPS
UsageExit     == 1

KernelPath == "generated_kernel.cu"
BinPath    == "generated_kernel.out"
NoFile     == <<>>       \* the path does not exist in the working directory
EmptyObj   == <<>>       \* the JSON object {} (a function with empty domain)

(* ------------------------------ helpers -------------------------------- *)
Min(a, b) == IF a < b THEN a ELSE b

Line(tag, s, n) == [tag |-> tag, s |-> s, n |-> n]

\* dict.get(key, default)
Get(d, k, default) == IF k \in DOMAIN d THEN d[k] ELSE default

\* round-half-up of a / b for non-negative a and positive b ("%.Nf" formatting)
RoundDiv(a, b) == (2 * a + b) \div (2 * b)

OpsLists == UNION { [1..n -> OpNames] : n \in 0..MaxOps }

\* JSON objects a workload file can hold: "model" and "hardware" are optional,
\* and so is "ops" inside "model".
Models == {EmptyObj} \cup { ("ops" :> o) : o \in OpsLists }

Workloads ==
    {EmptyObj}
    \cup { ("model" :> m) : m \in Models }
    \cup { ("hardware" :> h) : h \in Hardwares }
    \cup { ("model" :> m) @@ ("hardware" :> h) : m \in Models, h \in Hardwares }

\* What lies at the path given on the command line.
Files ==
    { [kind |-> "unreadable", data |-> EmptyObj],
      [kind |-> "malformed",  data |-> EmptyObj] }
    \cup { [kind |-> "json", data |-> d] : d \in Workloads }

\* Outcomes of subprocess.run(..., check=True).
CompilerOutcomes == {"ok", "FileNotFoundError", "CalledProcessError", "PermissionError"}

(* ------------------------- the stages' functions ----------------------- *)

\* a test that only notices the missing argument
WrongArity_missing(n) == n < 2

\* line 119: the arity test of the script entry
WrongArity(n) == n # 2

\* the position is left out of the latency
fake_trace_flat(o) ==
    [i \in 1..Len(o) |-> [op |-> o[i], latency_ms |-> BaseLatency]]

\* line 45: one record per op, latency 1.0 + i*0.1 for the 0-based position i
fake_trace(o) ==
    [i \in 1..Len(o) |-> [op |-> o[i], latency_ms |-> BaseLatency + (i - 1) * StepLatency]]

\* line 46: the sort key, lambda x: -x["latency_ms"]
sort_key(x) == 0 - x.latency_ms

\* Python's sorted(): ascending by key and stable.  InsertStable puts x behind
\* every element whose key is not larger, x being the later element of the input.
RECURSIVE InsertStable(_, _)
InsertStable(x, s) ==
    IF s = <<>> THEN <<x>>
    ELSE IF sort_key(Head(s)) <= sort_key(x)
         THEN <<Head(s)>> \o InsertStable(x, Tail(s))
         ELSE <<x>> \o s

RECURSIVE sorted(_)
sorted(s) ==
    IF s = <<>> THEN <<>>
    ELSE InsertStable(s[Len(s)], sorted(SubSeq(s, 1, Len(s) - 1)))

\* the slice is taken from the unsorted trace
hot_list_unsorted(t) == SubSeq(t, 1, Min(HotCount, Len(t)))

\* line 46: sorted(trace, key=...)[:3]
hot_list(t) == SubSeq(sorted(t), 1, Min(HotCount, Len(t)))

\* lines 47-48: one "hot-op" line per hot record, latency printed with %.2f
RECURSIVE hot_lines(_)
hot_lines(h) ==
    IF h = <<>> THEN <<>>
    ELSE <<Line("hot-op", Head(h).op, Head(h).latency_ms)>> \o hot_lines(Tail(h))

\* the last hot record instead of the first
plan_target_last(h) == IF h # <<>> THEN h[Len(h)].op ELSE "unknown_op"

\* index 1 read as a 1-based position of a 0-based list: the second record
plan_target_second(h) ==
    IF h # <<>> THEN h[Min(2, Len(h))].op ELSE "unknown_op"

\* line 57
plan_target(h) == IF h # <<>> THEN h[1].op ELSE "unknown_op"

\* line 58
make_plan(h) == [target |-> plan_target(h), strategy |-> "fuse_with_next"]

\* the template written without the f prefix: the placeholder stays as text
kernel_src_raw(p) ==
    << "#include <cuda_runtime.h>",
       "__global__ void fused_kernel(float* a, float* b, float* out) {",
       "    int idx = blockIdx.x * blockDim.x + threadIdx.x;",
       "    out[idx] = a[idx] * b[idx];  // pretend fused '", "{plan['target']}", "'",
       "}" >>

\* lines 69-75: the f-string, as the pieces it concatenates
kernel_src(p) ==
    << "#include <cuda_runtime.h>",
       "__global__ void fused_kernel(float* a, float* b, float* out) {",
       "    int idx = blockIdx.x * blockDim.x + threadIdx.x;",
       "    out[idx] = a[idx] * b[idx];  // pretend fused '", p.target, "'",
       "}" >>

\* lines 84-86: compile_cmd.split()
compile_cmd == <<"nvcc", KernelPath, "-o", BinPath>>

\* a try statement without the except clause
Caught_none(outcome) == FALSE

\* a bare except clause
Caught_any(outcome) == outcome # "ok"

\* lines 88-93: the only exception the try statement handles
Caught(outcome) == outcome = "FileNotFoundError"

\* the mock branch returns an empty measurement
run_metrics_mock(outcome) ==
    IF outcome = "FileNotFoundError"
    THEN [latency_ms |-> 0, gflops |-> 0]
    ELSE [latency_ms |-> MockLatency, gflops |-> MockGflops]

\* line 94: the record returned on every path that returns
run_metrics(outcome) == [latency_ms |-> MockLatency, gflops |-> MockGflops]

\* line 101: util = metrics["gflops"] / 312.0, in units of 10^-5
score_util(m) == (m.gflops * 100000) \div (PeakGflops * 10)

\* the runner called before the kernel generator
main_next_swapped(stage) ==
    CASE stage = "parser"    -> "profiler"
      [] stage = "profiler"  -> "planner"
      [] stage = "planner"   -> "runner"
      [] stage = "runner"    -> "kernelgen"
      [] stage = "kernelgen" -> "scorer"
      [] stage = "scorer"    -> "report"
      [] stage = "report"    -> "done"

\* lines 110-116: main is straight-line code; the stage that follows each stage
main_next(stage) ==
    CASE stage = "parser"    -> "profiler"
      [] stage = "profiler"  -> "planner"
      [] stage = "planner"   -> "kernelgen"
      [] stage = "kernelgen" -> "runner"
      [] stage = "runner"    -> "scorer"
      [] stage = "scorer"    -> "report"
      [] stage = "report"    -> "done"

(* ------------------------------ initial state -------------------------- *)
\* The process has started and nothing has run.  The locals of main are unbound
\* until their stage assigns them; they hold typed placeholders here and no
\* formula reads them before the assigning stage has run.
Init ==
    /\ pc = "entry"
    /\ argc \in 1..MaxArgc
    /\ file \in Files
    /\ ops = <<>>
    /\ hardware = ""
    /\ trace = <<>>
    /\ hot_ops = <<>>
    /\ plan = [target |-> "", strategy |-> ""]
    /\ fs_kernel = NoFile
    /\ subprocess_calls = <<>>
    /\ metrics = [latency_ms |-> 0, gflops |-> 0]
    /\ final_score = 0
    /\ stdout = <<>>
    /\ exit_status = -1
    /\ raised = ""

\* An uncaught exception: the interpreter prints a traceback to stderr and
\* exits with status 1.
Crash(exc) ==
    /\ pc' = "crashed"
    /\ raised' = exc
    /\ exit_status' = 1

(* --------------------------------- actions ----------------------------- *)
\* lines 118-122
ScriptEntry ==
    /\ pc = "entry"
    /\ IF WrongArity(argc)
       THEN /\ stdout' = Append(stdout, Line("usage", "Usage: python demo.py <workload_json>", 0))
            /\ exit_status' = UsageExit
            /\ pc' = "exited"
       ELSE /\ pc' = "parser"
            /\ UNCHANGED <<stdout, exit_status>>
    /\ UNCHANGED <<argc, file, ops, hardware, trace, hot_ops, plan, fs_kernel,
                   subprocess_calls, metrics, final_score, raised>>

\* lines 30-37
parse_workload ==
    /\ pc = "parser"
    /\ LET reading == Append(stdout, Line("[parser] reading", "", 0)) IN
       CASE file.kind = "unreadable" ->
              /\ Crash("OSError")
              /\ stdout' = reading
              /\ UNCHANGED <<ops, hardware>>
         [] file.kind = "malformed" ->
              /\ Crash("JSONDecodeError")
              /\ stdout' = reading
              /\ UNCHANGED <<ops, hardware>>
         [] file.kind = "json" ->
              LET o  == Get(Get(file.data, "model", EmptyObj), "ops", <<>>)
                  hw == Get(file.data, "hardware", "unknown")
              IN /\ ops' = o
                 /\ hardware' = hw
                 /\ stdout' = Append(reading, Line("[parser] ops", hw, Len(o)))
                 /\ pc' = main_next("parser")
                 /\ UNCHANGED <<raised, exit_status>>
    /\ UNCHANGED <<argc, file, trace, hot_ops, plan, fs_kernel, subprocess_calls,
                   metrics, final_score>>

\* lines 43-50
profile_workload ==
    /\ pc = "profiler"
    /\ LET t == fake_trace(ops)
           h == hot_list(t)
       IN /\ trace' = t
          /\ hot_ops' = h
          /\ stdout' = Append(stdout, Line("[profiler] generating", "", 0)) \o hot_lines(h)
    /\ pc' = main_next("profiler")
    /\ UNCHANGED <<argc, file, ops, hardware, plan, fs_kernel, subprocess_calls,
                   metrics, final_score, exit_status, raised>>

\* lines 56-60
plan_optimisations ==
    /\ pc = "planner"
    /\ LET p == make_plan(hot_ops)
       IN /\ plan' = p
          /\ stdout' = Append(stdout, Line("[planner] plan", p.target, 0))
    /\ pc' = main_next("planner")
    /\ UNCHANGED <<argc, file, ops, hardware, trace, hot_ops, fs_kernel,
                   subprocess_calls, metrics, final_score, exit_status, raised>>

\* lines 66-77
generate_kernel ==
    /\ pc = "kernelgen"
    /\ stdout' = Append(stdout, Line("[kernelgen] writing", KernelPath, 0))
    /\ fs_kernel' = kernel_src(plan)
    /\ pc' = main_next("kernelgen")
    /\ UNCHANGED <<argc, file, ops, hardware, trace, hot_ops, plan,
                   subprocess_calls, metrics, final_score, exit_status, raised>>

\* lines 83-94; the call of subprocess.run is recorded with the content the
\* kernel path had when the call was made
compile_and_run ==
    /\ pc = "runner"
    /\ \E outcome \in CompilerOutcomes :
         LET compiling == Append(stdout, Line("[runner] compiling", KernelPath, 0)) IN
         /\ subprocess_calls' = Append(subprocess_calls,
                [cmd |-> compile_cmd, input |-> fs_kernel, outcome |-> outcome])
         /\ IF outcome = "ok" \/ Caught(outcome)
            THEN /\ stdout' = Append(compiling,
                        IF outcome = "ok" THEN Line("[runner] running", "", 0)
                                          ELSE Line("[runner] nvcc not found", "", 0))
                 /\ metrics' = run_metrics(outcome)
                 /\ pc' = main_next("runner")
                 /\ UNCHANGED <<raised, exit_status>>
            ELSE /\ Crash(outcome)
                 /\ stdout' = compiling
                 /\ UNCHANGED metrics
    /\ UNCHANGED <<argc, file, ops, hardware, trace, hot_ops, plan, fs_kernel,
                   final_score>>

\* lines 100-103; the line shows the GFLOPS and util*100 with %.1f (in tenths)
score ==
    /\ pc = "scorer"
    /\ LET util == score_util(metrics)
       IN /\ final_score' = util
          /\ stdout' = Append(stdout, Line("[scorer] achieved", "GFLOPS", RoundDiv(util, 100)))
    /\ pc' = main_next("scorer")
    /\ UNCHANGED <<argc, file, ops, hardware, trace, hot_ops, plan, fs_kernel,
                   subprocess_calls, metrics, exit_status, raised>>

\* line 116, and the normal end of the script; the score is shown with %.3f
main_done ==
    /\ pc = "report"
    /\ stdout' = Append(stdout, Line("[agent] DONE", "", RoundDiv(final_score, 100)))
    /\ pc' = main_next("report")
    /\ exit_status' = 0
    /\ UNCHANGED <<argc, file, ops, hardware, trace, hot_ops, plan, fs_kernel,
                   subprocess_calls, metrics, final_score, raised>>

Next ==
    \/ ScriptEntry
    \/ parse_workload
    \/ profile_workload
    \/ plan_optimisations
    \/ generate_kernel
    \/ compile_and_run
    \/ score
    \/ main_done

Spec == Init /\ [][Next]_vars

\* The interpreter runs the script to its end: every enabled step is taken.
FairSpec == Spec /\ WF_vars(Next)

(* ------------------------------ properties ----------------------------- *)
HasLine(tag) == \E i \in 1..Len(stdout) : stdout[i].tag = tag

LinesOf(tag) == SelectSeq(stdout, LAMBDA l : l.tag = tag)

ParserReturned == HasLine("[parser] ops")
ProfilerRan    == HasLine("[profiler] generating")
PlannerRan     == HasLine("[planner] plan")
KernelgenRan   == HasLine("[kernelgen] writing")
RunnerRan      == HasLine("[runner] compiling")
ScorerRan      == HasLine("[scorer] achieved")
DonePrinted    == HasLine("[agent] DONE")

Injective(f) == \A a, b \in DOMAIN f : f[a] = f[b] => a = b

Range(f) == { f[a] : a \in DOMAIN f }

\* C1: once the profiler has run on an ops list of N entries, the trace has
\* exactly N records, record i carrying op i of the input, and the hot list has
\* exactly min(3, N) records, in descending latency order, which are records of
\* the trace such that no record left out has a higher latency than one kept.
C1_TraceAndHot ==
    ProfilerRan =>
        /\ Len(trace) = Len(ops)
        /\ \A i \in 1..Len(ops) : trace[i].op = ops[i]
        /\ Len(hot_ops) = (IF Len(ops) < 3 THEN Len(ops) ELSE 3)
        /\ \A j, k \in 1..Len(hot_ops) :
               j < k => hot_ops[j].latency_ms >= hot_ops[k].latency_ms
        /\ \E f \in [1..Len(hot_ops) -> 1..Len(trace)] :
               /\ Injective(f)
               /\ \A j \in 1..Len(hot_ops) : hot_ops[j] = trace[f[j]]
               /\ \A i \in (1..Len(trace)) \ Range(f) :
                      \A j \in 1..Len(hot_ops) :
                          trace[i].latency_ms <= hot_ops[j].latency_ms

\* the profiler has run on a list longer than the hot list
C1_Witness == ProfilerRan /\ Len(ops) > 3 /\ Len(trace) > Len(hot_ops)

\* C2: once the planner has run, the plan's target is the op of the first hot
\* record when the hot list is non-empty and "unknown_op" when it is empty, and
\* the strategy is "fuse_with_next" in both cases.
C2_PlanTarget ==
    PlannerRan =>
        /\ Len(hot_ops) > 0 => plan.target = hot_ops[1].op
        /\ Len(hot_ops) = 0 => plan.target = "unknown_op"
        /\ plan.strategy = "fuse_with_next"
        /\ LinesOf("[planner] plan") = <<Line("[planner] plan", plan.target, 0)>>

\* the planner has run on a hot list whose first and last ops differ
C2_Witness ==
    /\ PlannerRan
    /\ Len(hot_ops) = 3
    /\ hot_ops[1].op # hot_ops[3].op
    /\ hot_ops[1].op # hot_ops[2].op

ExampleFile ==
    [kind |-> "json",
     data |-> ("model" :> ("ops" :> <<"matmul", "relu", "matmul">>))
              @@ ("hardware" :> "A100")]

ExampleRun == argc = 2 /\ file = ExampleFile /\ PlannerRan

\* C3 as stated: on the example workload the run reports 3 ops and hardware
\* "A100", emits three hot-op lines, and the planner's target is "relu".
C3_ExampleTargetRelu ==
    ExampleRun =>
        /\ LinesOf("[parser] ops") = <<Line("[parser] ops", "A100", 3)>>
        /\ Len(LinesOf("hot-op")) = 3
        /\ plan.target = "relu"

\* C3 as amended: on the example workload the run reports 3 ops and hardware
\* "A100", emits three hot-op lines, and the planner's target is "matmul",
\* the op of the last position, whose synthetic latency is the highest.
C3_ExampleTargetMatmul ==
    ExampleRun =>
        /\ LinesOf("[parser] ops") = <<Line("[parser] ops", "A100", 3)>>
        /\ Len(LinesOf("hot-op")) = 3
        /\ plan.target = "matmul"
        /\ LinesOf("[planner] plan") = <<Line("[planner] plan", "matmul", 0)>>

\* the example workload has run to the DONE line
C3_Witness == ExampleRun /\ pc = "done" /\ DonePrinted

\* the comment of the kernel text names the target t
EmbedsTarget(text, t) ==
    \E i \in 2..Len(text) :
        /\ text[i - 1] = "    out[idx] = a[idx] * b[idx];  // pretend fused '"
        /\ text[i] = t

\* C4: in every run whose workload file parses, the kernel file exists with
\* the planner's target in its comment from the moment the runner is entered,
\* every call of the compiler found that file in place, and no such run ends,
\* whatever the compiler's outcome, without the file.
C4_KernelWritten ==
    /\ (ParserReturned /\ pc \in {"runner", "scorer", "report", "done", "crashed"}) =>
            /\ KernelgenRan
            /\ fs_kernel # NoFile
            /\ EmbedsTarget(fs_kernel, plan.target)
    /\ \A c \in 1..Len(subprocess_calls) :
            /\ subprocess_calls[c].input # NoFile
            /\ EmbedsTarget(subprocess_calls[c].input, plan.target)
    /\ (PlannerRan /\ Len(ops) = 0) => plan.target = "unknown_op"

\* a workload without ops whose compile step failed: the file is there
C4_Witness ==
    /\ pc = "crashed"
    /\ raised = "CalledProcessError"
    /\ ParserReturned
    /\ ops = <<>>
    /\ EmbedsTarget(fs_kernel, "unknown_op")

\* C5: with an argument count other than one (len(sys.argv) # 2) the script
\* prints the usage line and exits with status 1 and no stage runs: nothing but
\* the usage line is printed, no kernel file is written, no compiler is called.
C5_UsageExit ==
    argc # 2 =>
        /\ pc \in {"entry", "exited"}
        /\ pc = "entry" => stdout = <<>>
        /\ pc = "exited" =>
              /\ exit_status = 1
              /\ stdout = <<Line("usage", "Usage: python demo.py <workload_json>", 0)>>
        /\ ~HasLine("[parser] reading")
        /\ fs_kernel = NoFile
        /\ subprocess_calls = <<>>

\* the script was started with two arguments and has exited
C5_Witness == argc = 3 /\ pc = "exited" /\ exit_status = 1

CompilerOutcome(o) ==
    /\ subprocess_calls # <<>>
    /\ subprocess_calls[Len(subprocess_calls)].outcome = o

FixedMetrics == [latency_ms |-> 42, gflops |-> 1234]

\* C6: when the compiler executable is not found the failure is caught: the
\* runner returns the metrics record of a successful compile, nothing is
\* raised, and the run goes on through the scorer to the DONE line.
C6_CompilerNotFound ==
    /\ [](CompilerOutcome("FileNotFoundError") =>
             /\ pc \in {"scorer", "report", "done"}
             /\ raised = ""
             /\ metrics = FixedMetrics)
    /\ [](CompilerOutcome("ok") => metrics = FixedMetrics)
    /\ (CompilerOutcome("FileNotFoundError") ~>
             (pc = "done" /\ ScorerRan /\ DonePrinted /\ exit_status = 0))

\* a run without a compiler has reached the DONE line
C6_Witness ==
    /\ CompilerOutcome("FileNotFoundError")
    /\ pc = "done"
    /\ DonePrinted
    /\ metrics = FixedMetrics

\* C7: every run that reaches the scorer computes the same utilisation, the
\* quotient of the throughput 123.4 and 312 (0.39551 to five places), and the
\* same score line and DONE line (39.6 % and 0.396), whatever the ops, the
\* hardware and the compiler's outcome.
C7_FixedScore ==
    ScorerRan =>
        /\ metrics.gflops = 1234
        /\ final_score = 39551
        /\ final_score * 3120 <= 123400000
        /\ 123400000 < (final_score + 1) * 3120
        /\ LinesOf("[scorer] achieved") = <<Line("[scorer] achieved", "GFLOPS", 396)>>
        /\ DonePrinted => LinesOf("[agent] DONE") = <<Line("[agent] DONE", "", 396)>>

\* the scorer has run after a mock run on a non-empty workload with hardware
C7_Witness ==
    /\ ScorerRan
    /\ DonePrinted
    /\ CompilerOutcome("FileNotFoundError")
    /\ Len(ops) > 1
    /\ hardware = "H100"

StageTags ==
    {"[parser] reading", "[profiler] generating", "[planner] plan",
     "[kernelgen] writing", "[runner] compiling", "[scorer] achieved"}

\* the stages that have been entered, in the order of their first output
StagesRun == [i \in 1..Len(SelectSeq(stdout, LAMBDA l : l.tag \in StageTags)) |->
                 SelectSeq(stdout, LAMBDA l : l.tag \in StageTags)[i].tag]

C8_State ==
    /\ (argc = 2 /\ file.kind \in {"unreadable", "malformed"}) =>
            /\ pc \in {"entry", "parser", "crashed"}
            /\ ~ParserReturned /\ ~ProfilerRan /\ ~PlannerRan
            /\ ~KernelgenRan /\ ~RunnerRan /\ ~ScorerRan /\ ~DonePrinted
            /\ fs_kernel = NoFile
            /\ subprocess_calls = <<>>
    /\ (CompilerOutcome("CalledProcessError") \/ CompilerOutcome("PermissionError")) =>
            /\ pc = "crashed"
            /\ ~ScorerRan
            /\ ~DonePrinted
    /\ pc = "crashed" =>
            /\ raised # ""
            /\ exit_status = 1
            /\ ~DonePrinted
            /\ StagesRun # <<>>
            /\ StagesRun[Len(StagesRun)] \in {"[parser] reading", "[runner] compiling"}
            /\ StagesRun[Len(StagesRun)] = "[parser] reading" <=> subprocess_calls = <<>>

\* C8: a failure other than wrong arity and compiler-not-found ends the run in
\* the stage where it occurs and nothing runs after it: with an unreadable or
\* malformed file no stage after the parser runs, no kernel file is written and
\* no compiler is called; with a compiler that exits non-zero (or cannot be
\* executed) the scorer never runs and the DONE line is never printed.
C8_FailureAborts ==
    /\ []C8_State
    /\ [][pc = "crashed" => UNCHANGED vars]_vars

\* the compiler was found, exited non-zero and the run has stopped in the runner
C8_Witness ==
    /\ pc = "crashed"
    /\ raised = "CalledProcessError"
    /\ StagesRun[Len(StagesRun)] = "[runner] compiling"
    /\ fs_kernel # NoFile

C9_Done ==
    pc = "done" =>
        /\ StagesRun = <<"[parser] reading", "[profiler] generating", "[planner] plan",
                         "[kernelgen] writing", "[runner] compiling", "[scorer] achieved">>
        /\ Len(subprocess_calls) = 1
        /\ subprocess_calls[1].cmd = <<"nvcc", "generated_kernel.cu", "-o", "generated_kernel.out">>
        /\ subprocess_calls[1].input = fs_kernel
        /\ fs_kernel # NoFile
        \* what each stage handed to the next
        /\ Len(trace) = Len(ops)
        /\ \A j \in 1..Len(hot_ops) : \E i \in 1..Len(trace) : hot_ops[j] = trace[i]
        /\ plan.target = (IF hot_ops = <<>> THEN "unknown_op" ELSE hot_ops[1].op)
        /\ EmbedsTarget(fs_kernel, plan.target)
        /\ final_score * 3120 <= metrics.gflops * 100000
        /\ metrics.gflops * 100000 < (final_score + 1) * 3120

\* a step that calls the compiler: the kernel file is there, the runner is the
\* last stage entered and the scorer has not run
C9_CallStep ==
    subprocess_calls' # subprocess_calls =>
        /\ Len(subprocess_calls') = Len(subprocess_calls) + 1
        /\ subprocess_calls = <<>>
        /\ KernelgenRan
        /\ fs_kernel # NoFile
        /\ ~RunnerRan
        /\ ~ScorerRan

\* C9: in every run that reaches the DONE line the six stages have run once
\* each in the order parser, profiler, planner, kernel generator, runner,
\* scorer, each on what the stage before it produced, and the compiler was
\* called exactly once, after the kernel file was written and before the scorer.
C9_StageOrder ==
    /\ []C9_Done
    /\ [][C9_CallStep]_vars

\* a run has reached the DONE line after a successful compile
C9_Witness ==
    /\ pc = "done"
    /\ DonePrinted
    /\ CompilerOutcome("ok")
    /\ Len(StagesRun) = 6

\* C10: the latencies of a trace increase strictly with the position, so no two
\* records tie; for a non-empty ops list of N entries the hot list is the last
\* min(3, N) ops in reverse input order, and the planner's target and the name
\* in the kernel file are the last op of the list.
C10_LastOpWins ==
    /\ ProfilerRan =>
          /\ \A i, j \in 1..Len(trace) :
                 i < j => trace[i].latency_ms < trace[j].latency_ms
          /\ \A j \in 1..Len(hot_ops) :
                 /\ hot_ops[j].op = ops[Len(ops) + 1 - j]
                 /\ hot_ops[j] = trace[Len(ops) + 1 - j]
          /\ Len(hot_ops) = (IF Len(ops) < 3 THEN Len(ops) ELSE 3)
    /\ (PlannerRan /\ Len(ops) > 0) => plan.target = ops[Len(ops)]
    /\ (KernelgenRan /\ Len(ops) > 0) => EmbedsTarget(fs_kernel, ops[Len(ops)])

\* the kernel was written for a list whose last op differs from the others
C10_Witness ==
    /\ KernelgenRan
    /\ Len(ops) = 4
    /\ \A i \in 1..3 : ops[i] # ops[4]
    /\ EmbedsTarget(fs_kernel, ops[4])

====
